---- MODULE Spec2Model ----
(***************************************************************************)
(* EV Parts Store backend (src/main.py): the checkout handler, the seed    *)
(* handler and the two collections ("product", "order") they work on.      *)
(*                                                                         *)
(* Units.  Prices and running totals are binary floats in the code.  The   *)
(* model keeps them as integers counting sixteenths (1/16) of a currency   *)
(* unit: on such values float multiplication by an integer and float       *)
(* addition are exact, so the arithmetic of lines 146-147 is modelled      *)
(* without loss.  round(total, 2) yields a number of hundredths; the       *)
(* model keeps an order's total as that integer number of hundredths.      *)
(***************************************************************************)
EXTENDS Integers, Sequences, FiniteSets, TLC

(* ------------------------------ bounds -------------------------------- *)
\* Most lines in one cart.
MaxItems == 2
\* Checkout is no longer called once the order collection holds this many.
MaxOrders == 2
\* Most changes made to the product collection from outside the handlers.
MaxUpdates == 1
\* Number of POST /seed requests whose handlers may interleave.
NumSeedRequests == 3

(* --------------------------- ObjectId (bson) --------------------------- *)
\* An ObjectId is 12 bytes; its text is 24 hexadecimal characters.
OidBytes == 12

LowerDigits == <<"0","1","2","3","4","5","6","7","8","9","a","b","c","d","e","f">>
UpperDigits == <<"0","1","2","3","4","5","6","7","8","9","A","B","C","D","E","F">>

HexDigits == {LowerDigits[i] : i \in 1..16} \cup {UpperDigits[i] : i \in 1..16}

\* The value of a hexadecimal digit of either case.
HexVal ==
    [c \in HexDigits |->
        (CHOOSE i \in 1..16 : LowerDigits[i] = c \/ UpperDigits[i] = c) - 1]

IsHex(c) == c \in HexDigits

\* The value ObjectId(...) raises InvalidId for.
InvalidId == <<>>

\* ObjectId(text): the 12 bytes the text spells (bytes.fromhex reads both
\* letter cases), or InvalidId when the text is not 24 hexadecimal characters.
ObjectId(s) ==
    IF Len(s) = 2 * OidBytes /\ \A i \in 1..Len(s) : IsHex(s[i])
    THEN [i \in 1..OidBytes |-> 16 * HexVal[s[2 * i - 1]] + HexVal[s[2 * i]]]
    ELSE InvalidId

\* str(oid): the canonical text, lower-case hexadecimal.
Str(oid) ==
    [i \in 1..(2 * Len(oid)) |->
        IF i % 2 = 1 THEN LowerDigits[(oid[(i + 1) \div 2] \div 16) + 1]
                     ELSE LowerDigits[(oid[i \div 2] % 16) + 1]]

\* The n-th identifier the store hands out (bytes a1.., a2.., ...).
Oid(n) == [i \in 1..OidBytes |-> 160 + n]

(* ----------------------------- documents ------------------------------ *)
\* dict.get(key, default)
Get(doc, key, default) == IF key \in DOMAIN doc THEN doc[key] ELSE default

\* The three sample products of seed_products (title, price in sixteenths:
\* 499.0, 129.0, 59.0).
samples ==
    << [title |-> "Level 2 Home Charger", price |-> 7984],
       [title |-> "Type 2 Charging Cable 7m", price |-> 2064],
       [title |-> "Portable Tire Inflator", price |-> 944] >>

\* A sample as stored by insert_one, which gives it an _id.
Stored(p, oid) == [_id |-> oid, title |-> p.title, price |-> p.price]

\* insert_one: the store assigns an identifier no document of the collection has.
NewObjectId(coll) ==
    Oid(CHOOSE n \in 1..(Cardinality(coll) + 1) :
            /\ \A d \in coll : d._id # Oid(n)
            /\ \A m \in 1..(n - 1) : \E d \in coll : d._id = Oid(m))

Max(a, b) == IF a >= b THEN a ELSE b

(* ----------------------------- the state ------------------------------ *)
VARIABLES
    db,            \* TRUE: the database handle is set; FALSE: db is None
    product,       \* the "product" collection: a set of documents
    order,         \* the "order" collection, in insertion order
    request,       \* payload of the latest checkout call
    response,      \* what the latest checkout call returned or raised
    queried,       \* the latest checkout call queried the product collection
    succeeded,     \* number of checkout calls that returned normally
    updates,       \* number of outside changes to the product collection
    seedPc,        \* per seed request: where its handler stands
    seedIdx,       \* per seed request: index of the next sample to insert
    seedResp       \* per seed request: what it returned or raised

vars == <<db, product, order, request, response, queried, succeeded, updates,
          seedPc, seedIdx, seedResp>>

checkoutVars == <<order, request, response, queried, succeeded>>
seedVars == <<seedPc, seedIdx, seedResp>>

(* ------------------------- inputs of checkout -------------------------- *)
Text1 == Str(Oid(1))                                  \* "a1a1..."
Text2 == Str(Oid(2))                                  \* "a2a2..."
Upper1 == [i \in 1..(2 * OidBytes) |-> IF i % 2 = 1 THEN "A" ELSE "1"]
TextNone == Str(Oid(9))                               \* well formed, no such product
TextBad == [i \in 1..(2 * OidBytes) |-> IF i % 2 = 1 THEN "g" ELSE "1"]
TextShort == <<"a", "1">>

CartItem(product_id, quantity) == [product_id |-> product_id, quantity |-> quantity]

\* The cart lines requests are built from: known products with a negative, a
\* zero and a larger quantity; the upper-case text of a known identifier; a
\* well-formed identifier of no product; two texts that are no identifier.
Lines == {CartItem(Text1, -1), CartItem(Text2, 0), CartItem(Text1, 2),
          CartItem(Upper1, 1), CartItem(TextNone, 1), CartItem(TextBad, 1),
          CartItem(TextShort, 1)}

SeqsUpTo(S, n) == UNION {[1..k -> S] : k \in 0..n}

CheckoutRequest(items) ==
    [items |-> items, customer_name |-> "Ada", email |-> "ada@example.org",
     address |-> "1 Main St"]

\* Every cart of at most MaxItems lines.
Requests == {CheckoutRequest(c) : c \in SeqsUpTo(Lines, MaxItems)}

\* The carts sent to a shop that takes several orders in a row: the empty
\* cart, one line, and two lines on two products.
RepeatRequests ==
    {CheckoutRequest(c) : c \in {<<>>, <<CartItem(Text1, 2)>>,
                                  <<CartItem(Text1, 1), CartItem(Text2, 3)>>}}

(* ------------------------- pieces of checkout -------------------------- *)
HTTPException(status_code, detail) == [status |-> status_code, detail |-> detail]

NoResponse == [status |-> 0]
NoRequest == CheckoutRequest(<<>>)

\* Lines 130-135: every product id is parsed before anything else happens;
\* the first one that does not parse ends the request.
ParseIdsSkip(items) ==
    [ok |-> TRUE,
     ids |-> {ObjectId(items[i].product_id) : i \in 1..Len(items)} \ {InvalidId}]

ParseIdsNonEmpty(items) ==
    [ok |-> /\ Len(items) > 0
            /\ \A i \in 1..Len(items) : ObjectId(items[i].product_id) # InvalidId,
     ids |-> {ObjectId(items[i].product_id) : i \in 1..Len(items)}]

ParseIds(items) ==
    [ok |-> \A i \in 1..Len(items) : ObjectId(items[i].product_id) # InvalidId,
     ids |-> {ObjectId(items[i].product_id) : i \in 1..Len(items)}]

\* Line 136: find({"_id": {"$in": ids}}).
Find(coll, ids) == {p \in coll : p._id \in ids}

\* Line 137: the found documents keyed by str(_id).
ProductMap(found) ==
    [k \in {Str(p._id) : p \in found} |-> CHOOSE p \in found : Str(p._id) = k]

\* Line 145.
QtyRaw(ci) == ci.quantity

Qty(ci) == Max(1, ci.quantity)

\* Line 146.
Price(prod) == Get(prod, "price", 0)

\* schemas.OrderItem and schemas.Order.
OrderItem(product_id, title, quantity, price) ==
    [product_id |-> product_id, title |-> title, quantity |-> quantity,
     price |-> price]

Order(items, total, customer_name, email, address) ==
    [items |-> items, total |-> total, customer_name |-> customer_name,
     email |-> email, address |-> address]

\* Lines 148-153.
MakeOrderItemRef(ci, prod) == [product_id |-> ci.product_id, quantity |-> Qty(ci)]

MakeOrderItem(ci, prod) ==
    OrderItem(ci.product_id, Get(prod, "title", ""), Qty(ci), Price(prod))

\* Lines 139-153: the assembly loop from line i on, with the items and the
\* running total built so far.  It stops at the first line whose raw
\* product_id is no key of product_map.
RECURSIVE AssembleSkip(_, _, _, _, _)
AssembleSkip(items, i, pm, order_items, total) ==
    IF i > Len(items)
    THEN [ok |-> TRUE, missing |-> <<>>, order_items |-> order_items, total |-> total]
    ELSE IF items[i].product_id \notin DOMAIN pm
         THEN AssembleSkip(items, i + 1, pm, order_items, total)
         ELSE AssembleSkip(items, i + 1, pm,
                           Append(order_items, MakeOrderItem(items[i], pm[items[i].product_id])),
                           total + Price(pm[items[i].product_id]) * Qty(items[i]))

RECURSIVE AssembleFrom(_, _, _, _, _)
AssembleFrom(items, i, pm, order_items, total) ==
    IF i > Len(items)
    THEN [ok |-> TRUE, missing |-> <<>>, order_items |-> order_items, total |-> total]
    ELSE LET ci == items[i] IN
         IF ci.product_id \notin DOMAIN pm
         THEN [ok |-> FALSE, missing |-> ci.product_id,
               order_items |-> order_items, total |-> total]
         ELSE LET prod == pm[ci.product_id]
                  qty == Qty(ci)
                  price == Price(prod)
              IN AssembleFrom(items, i + 1, pm,
                              Append(order_items, MakeOrderItem(ci, prod)),
                              total + price * qty)

\* Line 157: round(total, 2) of a total given in sixteenths, as a number of
\* hundredths.  25 * t is the total in quarters of a hundredth; Python
\* rounds to the nearest hundredth and an exact half to the even one.
RoundTrunc(t) == (25 * t) \div 4

Round2(t) ==
    LET n == 25 * t
        q == n \div 4
        r == n % 4
    IN IF r < 2 THEN q
       ELSE IF r > 2 THEN q + 1
       ELSE IF q % 2 = 0 THEN q ELSE q + 1

\* database.create_document: inserts the document and returns its new id
\* (here its position in the collection).
create_document(coll, data) == [coll |-> Append(coll, data), id |-> Len(coll) + 1]

\* Line 163: the one place where checkout writes.
PersistDedup(coll, data) ==
    IF \E i \in 1..Len(coll) : coll[i] = data
    THEN [coll |-> coll, id |-> CHOOSE i \in 1..Len(coll) : coll[i] = data]
    ELSE create_document(coll, data)

PersistOrder(coll, data) == create_document(coll, data)

(* ------------------------------ checkout ------------------------------- *)
\* POST /checkout, lines 124-164.
checkout(payload) ==
    /\ Len(order) < MaxOrders
    /\ request' = payload
    /\ IF ~db
       THEN /\ response' = HTTPException(500, <<"Database not configured">>)
            /\ queried' = FALSE
            /\ UNCHANGED <<order, succeeded>>
       ELSE LET parsed == ParseIds(payload.items) IN
            IF ~parsed.ok
            THEN /\ response' = HTTPException(400, <<"Invalid product id">>)
                 /\ queried' = FALSE
                 /\ UNCHANGED <<order, succeeded>>
            ELSE LET product_map == ProductMap(Find(product, parsed.ids))
                     res == AssembleFrom(payload.items, 1, product_map, <<>>, 0)
                 IN /\ queried' = TRUE
                    /\ IF ~res.ok
                       THEN /\ response' = HTTPException(400, <<"Product not found: ", res.missing>>)
                            /\ UNCHANGED <<order, succeeded>>
                       ELSE LET o == Order(res.order_items, Round2(res.total),
                                           payload.customer_name, payload.email,
                                           payload.address)
                                saved == PersistOrder(order, o)
                            IN /\ order' = saved.coll
                               /\ response' = [status |-> 200, order_id |-> saved.id,
                                               total |-> o.total]
                               /\ succeeded' = succeeded + 1
    /\ UNCHANGED <<db, product, updates, seedVars>>

(* ------------------ changes to the product collection ------------------ *)
\* What a writer other than checkout may turn a product document into.
Changed(doc) ==
    { [doc EXCEPT !.price = 3],                       \* 0.1875
      [doc EXCEPT !.price = 2],                       \* 0.125
      [_id |-> doc._id, title |-> doc.title],         \* price removed
      [_id |-> doc._id, price |-> doc.price],         \* title removed
      [doc EXCEPT !.title = "Renamed"] } \ {doc}

UpdateProduct ==
    /\ updates < MaxUpdates
    /\ \E doc \in product :
         /\ DOMAIN doc = {"_id", "title", "price"}
         /\ doc._id \in {Oid(1), Oid(2)}
         /\ \E new \in Changed(doc) : product' = (product \ {doc}) \cup {new}
    /\ updates' = updates + 1
    /\ UNCHANGED <<db, checkoutVars, seedVars>>

DeleteProduct ==
    /\ updates < MaxUpdates
    /\ \E doc \in product :
         /\ doc._id \in {Oid(1), Oid(2)}
         /\ product' = product \ {doc}
    /\ updates' = updates + 1
    /\ UNCHANGED <<db, checkoutVars, seedVars>>

(* -------------------------------- seed --------------------------------- *)
SeedRequests == 1..NumSeedRequests

\* Lines 71-75: the availability check and the count of the collection.
SeedCount(h) ==
    /\ seedPc[h] = "start"
    /\ IF ~db
       THEN /\ seedPc' = [seedPc EXCEPT ![h] = "done"]
            /\ seedResp' = [seedResp EXCEPT ![h] = "500"]
            /\ UNCHANGED seedIdx
       ELSE IF Cardinality(product) > 0
       THEN /\ seedPc' = [seedPc EXCEPT ![h] = "done"]
            /\ seedResp' = [seedResp EXCEPT ![h] = "seeded: False"]
            /\ UNCHANGED seedIdx
       ELSE /\ seedPc' = [seedPc EXCEPT ![h] = "insert"]
            /\ seedIdx' = [seedIdx EXCEPT ![h] = 1]
            /\ UNCHANGED seedResp
    /\ UNCHANGED <<db, product, updates, checkoutVars>>

\* Lines 102-104: one insert_one of the loop; after the last one the handler
\* returns seeded = True.
SeedInsert(h) ==
    /\ seedPc[h] = "insert"
    /\ product' = product \cup {Stored(samples[seedIdx[h]], NewObjectId(product))}
    /\ IF seedIdx[h] = Len(samples)
       THEN /\ seedPc' = [seedPc EXCEPT ![h] = "done"]
            /\ seedResp' = [seedResp EXCEPT ![h] = "seeded: True"]
            /\ UNCHANGED seedIdx
       ELSE /\ seedIdx' = [seedIdx EXCEPT ![h] = seedIdx[h] + 1]
            /\ UNCHANGED <<seedPc, seedResp>>
    /\ UNCHANGED <<db, updates, checkoutVars>>

(* --------------------------- specifications ---------------------------- *)
InitCommon ==
    /\ db \in BOOLEAN
    /\ request = NoRequest
    /\ response = NoResponse
    /\ queried = FALSE
    /\ succeeded = 0
    /\ updates = 0
    /\ seedPc = [h \in SeedRequests |-> "start"]
    /\ seedIdx = [h \in SeedRequests |-> 0]
    /\ seedResp = [h \in SeedRequests |-> "none"]

\* The product collection right after a seed.
Seeded == {Stored(samples[n], Oid(n)) : n \in 1..Len(samples)}

\* A shop that was seeded, has no order yet, and then takes orders while its
\* products are changed or removed.
Init ==
    /\ InitCommon
    /\ product = Seeded
    /\ order = <<>>

Next ==
    \/ \E payload \in RepeatRequests : checkout(payload)
    \/ UpdateProduct
    \/ DeleteProduct

Spec == Init /\ [][Next]_vars

\* One checkout call, with any cart, on a shop in any of these conditions:
\* the first sample as seeded or changed, the second as seeded, changed or
\* gone, and the order collection empty or holding an earlier order.
Stores ==
    { {d1} \cup s2 \cup {Stored(samples[3], Oid(3))} :
        d1 \in {Stored(samples[1], Oid(1))} \cup Changed(Stored(samples[1], Oid(1))),
        s2 \in { {}, {Stored(samples[2], Oid(2))},
                 {[Stored(samples[2], Oid(2)) EXCEPT !.price = 2]} } }

EarlierOrder ==
    Order(<<OrderItem(Text2, samples[2].title, 1, samples[2].price)>>,
          Round2(samples[2].price), "Bob", "bob@example.org", "2 Side St")

InitCall ==
    /\ InitCommon
    /\ product \in Stores
    /\ order \in {<<>>, <<EarlierOrder>>}

NextCall == \E payload \in Requests : response = NoResponse /\ checkout(payload)

SpecCall == InitCall /\ [][NextCall]_vars

\* A fresh database receiving seed requests.
InitSeed ==
    /\ InitCommon
    /\ product = {}
    /\ order = <<>>

NextSeed == \E h \in SeedRequests : SeedCount(h) \/ SeedInsert(h)

SpecSeed == InitSeed /\ [][NextSeed]_vars

(* ------------------------------ properties ----------------------------- *)
\* A checkout call has been handled.
Handled == response.status # 0

\* The text is an identifier of the store's format.
Parses(text) == ObjectId(text) # InvalidId

\* The product collection `coll` holds the product the text refers to.
InStore(text, coll) == \E d \in coll : d._id = ObjectId(text)
ProductOf(text, coll) == CHOOSE d \in coll : d._id = ObjectId(text)

Clamped(q) == IF q <= 0 THEN 1 ELSE q

\* Sum over cart lines of the referenced product's price times the clamped
\* quantity, in sixteenths.
RECURSIVE SumLines(_, _)
SumLines(items, coll) ==
    IF items = <<>> THEN 0
    ELSE LET d == ProductOf(Head(items).product_id, coll)
         IN (IF "price" \in DOMAIN d THEN d.price ELSE 0) * Clamped(Head(items).quantity)
            + SumLines(Tail(items), coll)

\* h hundredths is a value with two decimals nearest to t sixteenths.
Nearest(h, t) == 16 * h - 100 * t <= 8 /\ 100 * t - 16 * h <= 8

\* C1: a successful checkout persists and returns a total equal to the sum
\* over all cart lines of (price of the referenced product x max(1, quantity)),
\* rounded to two decimal places; every line counts, repeated products too.
C1_TotalIsRoundedSum ==
    response.status = 200 =>
        /\ response.order_id \in 1..Len(order)
        /\ Nearest(order[response.order_id].total, SumLines(request.items, product))
        /\ response.total = order[response.order_id].total

\* The same product on two lines, priced 0.1875: 3 x 0.1875 = 0.5625 -> 0.56.
C1_Witness ==
    /\ response.status = 200
    /\ Len(request.items) = 2
    /\ request.items[1].product_id = request.items[2].product_id
    /\ request.items[1].quantity = 2
    /\ response.total = 56

\* The failure paths of checkout, read off the request and the shop: the
\* store is not configured, a product id does not parse, or a line refers
\* to a product the collection does not hold.
FailurePath(req, coll) ==
    \/ ~db
    \/ \E i \in 1..Len(req.items) : ~Parses(req.items[i].product_id)
    \/ \E i \in 1..Len(req.items) : ~InStore(req.items[i].product_id, coll)

\* C2: on every failure path of checkout the call fails and the order
\* collection after the call is the one before it.
C2_NoOrderOnFailure ==
    [][ /\ FailurePath(request', product) => response'.status \in {400, 500}
        /\ response'.status # 200 => order' = order ]_vars

\* The first line was valid and priced, the second names no product; the
\* earlier order is all the collection holds.
C2_Witness ==
    /\ request.items = <<CartItem(Text1, 2), CartItem(TextNone, 1)>>
    /\ response.status = 400
    /\ queried
    /\ order = <<EarlierOrder>>

AllParse(req) == \A i \in 1..Len(req.items) : Parses(req.items[i].product_id)

Absent(req, coll) ==
    {i \in 1..Len(req.items) : ~InStore(req.items[i].product_id, coll)}

FirstAbsent(req, coll) ==
    CHOOSE i \in Absent(req, coll) : \A j \in Absent(req, coll) : i <= j

\* C3: with a configured store, if all product ids parse and some line
\* refers to a product absent from the store, checkout fails with a 400 whose
\* message names the product id of the first such line.
C3_NamesFirstAbsentLine ==
    (Handled /\ db /\ AllParse(request) /\ Absent(request, product) # {}) =>
        /\ response.status = 400
        /\ response.detail =
             <<"Product not found: ", request.items[FirstAbsent(request, product)].product_id>>

\* C4 as stated: a line whose product id does not parse makes the call fail
\* with "Invalid product id", before the product collection is queried.
C4_InvalidIdAlways ==
    (Handled /\ ~AllParse(request)) =>
        /\ response = HTTPException(400, <<"Invalid product id">>)
        /\ ~queried

\* C4, amended: the same when the store is configured.
C4_InvalidIdWhenConfigured ==
    (Handled /\ db /\ ~AllParse(request)) =>
        /\ response = HTTPException(400, <<"Invalid product id">>)
        /\ ~queried

\* The unparseable id comes second, after a line naming no product.
C4_Witness ==
    /\ db
    /\ request.items = <<CartItem(TextNone, 1), CartItem(TextBad, 1)>>
    /\ response.status = 400
    /\ ~queried

\* C5: every item of every stored order has quantity >= 1; the order of a
\* successful checkout has one item per cart line, with quantity
\* max(1, line quantity), and its total counts that quantity.
RECURSIVE SumItems(_, _)
SumItems(order_items, items) ==
    IF items = <<>> THEN 0
    ELSE Head(order_items).price * Clamped(Head(items).quantity)
         + SumItems(Tail(order_items), Tail(items))

C5_QuantityClamped ==
    /\ \A k \in 1..Len(order) : \A j \in 1..Len(order[k].items) :
          order[k].items[j].quantity >= 1
    /\ response.status = 200 =>
          LET o == order[response.order_id] IN
          /\ Len(o.items) = Len(request.items)
          /\ \A j \in 1..Len(o.items) :
                o.items[j].quantity = Clamped(request.items[j].quantity)
          /\ Nearest(o.total, SumItems(o.items, request.items))

\* Quantities -1 and 0 on the seeded shop: 499.00 + 129.00 = 628.00.
C5_Witness ==
    /\ response.status = 200
    /\ request.items = <<CartItem(Text1, -1), CartItem(Text2, 0)>>
    /\ order[response.order_id].items[1].quantity = 1
    /\ order[response.order_id].items[2].quantity = 1
    /\ response.total = 62800

\* What a stored order item shows as its price and title: the values it
\* carries, or those of the product it points to when it carries none.
RecordedPrice(it, coll) ==
    IF "price" \in DOMAIN it THEN it.price
    ELSE IF InStore(it.product_id, coll)
         THEN Get(ProductOf(it.product_id, coll), "price", 0) ELSE 0

RecordedTitle(it, coll) ==
    IF "title" \in DOMAIN it THEN it.title
    ELSE IF InStore(it.product_id, coll)
         THEN Get(ProductOf(it.product_id, coll), "title", "") ELSE ""

\* C6: whatever happens next (a product repriced, retitled or removed, or
\* another checkout), every stored order keeps its items' prices and titles
\* and its total.
C6_Snapshot ==
    [][ \A k \in 1..Len(order) :
          /\ k <= Len(order')
          /\ order'[k].total = order[k].total
          /\ Len(order'[k].items) = Len(order[k].items)
          /\ \A j \in 1..Len(order[k].items) :
                /\ RecordedPrice(order'[k].items[j], product')
                     = RecordedPrice(order[k].items[j], product)
                /\ RecordedTitle(order'[k].items[j], product')
                     = RecordedTitle(order[k].items[j], product) ]_vars

\* A stored order shows a price or a title its product no longer has, or
\* its product is gone.
C6_Witness ==
    \E k \in 1..Len(order) : \E j \in 1..Len(order[k].items) :
        LET it == order[k].items[j] IN
        \/ ~InStore(it.product_id, product)
        \/ Get(ProductOf(it.product_id, product), "price", 0) # it.price
        \/ Get(ProductOf(it.product_id, product), "title", "") # it.title

\* C7: a successful checkout adds exactly one order and leaves the earlier
\* ones as they were, any other step leaves the collection alone, and the
\* number of orders is the number of successful checkouts.
C7_OneOrderPerCheckout ==
    [][ /\ succeeded' = succeeded + 1 =>
             /\ Len(order') = Len(order) + 1
             /\ SubSeq(order', 1, Len(order)) = order
        /\ succeeded' = succeeded => order' = order
        /\ Len(order') = succeeded' ]_vars

\* Two checkouts with the same contents left two equal orders.
C7_Witness ==
    /\ succeeded = 2
    /\ Len(order) = 2
    /\ order[1] = order[2]
    /\ Len(order[1].items) > 0

\* C8: with a configured store, a checkout of the empty cart succeeds,
\* persists an order with no items and total 0.00, and returns its id.
C8_EmptyCart ==
    (Handled /\ db /\ request.items = <<>>) =>
        /\ response.status = 200
        /\ response.total = 0
        /\ response.order_id = Len(order)
        /\ order[response.order_id].items = <<>>
        /\ order[response.order_id].total = 0

C8_Witness ==
    /\ Handled
    /\ request.items = <<>>
    /\ response.status = 200
    /\ order = <<EarlierOrder, Order(<<>>, 0, request.customer_name, request.email, request.address)>>

\* C9: with a configured store, when every cart line's product id parses to
\* the identifier of a product in the store, checkout succeeds, whatever the
\* text of the identifier.
C9_SucceedsWhenAllExist ==
    (Handled /\ db /\ AllParse(request) /\ Absent(request, product) = {}) =>
        response.status = 200

\* C10: after any sequence of seed requests, interleaved ones included, the
\* product collection holds each sample product at most once.
C10_SamplesAtMostOnce ==
    \A n \in 1..Len(samples) :
        Cardinality({d \in product : d.title = samples[n].title}) <= 1

====
